---- MODULE Spec2Model ----
(***************************************************************************)
(* Model of the AI-Doc-Scraper execution engine: the plan repair loop of   *)
(* main.py, link discovery, content extraction and the two fetch           *)
(* strategies of modules/scraper.py, and the plan proposal / repair steps  *)
(* of modules/ai_planner.py.                                               *)
(*                                                                         *)
(* Strings are sequences of tokens.  A token is either one character or an *)
(* atom that the code never splits ("https://x", ".html").                 *)
(***************************************************************************)
EXTENDS Integers, Sequences, FiniteSets, TLC

(***************************************************************************)
(* Program constants                                                       *)
(***************************************************************************)
MAX_ATTEMPTS == 2

CONCURRENT_REQUESTS == 20

SnippetLimit == 2000

(***************************************************************************)
(* Bounds of the model                                                     *)
(***************************************************************************)
\* number of anonymous tasks beyond the concurrency cap in the gate model
MaxExtraTasks == 3

\* number of child elements of the content regions tried on extraction alone
MaxElems == 3

\* number of links of the navigation regions tried on link discovery alone
MaxLinks == 3

\* lengths (in characters) of the rendered entry pages that are tried
ShortPage == 1500

LongPage == 2500

(***************************************************************************)
(* Token strings                                                           *)
(***************************************************************************)
OriginX == "https://x"
OriginRos == "https://docs.ros.org"
OriginOther == "https://other"
OriginIsaac == "https://docs.isaacsim.omniverse.nvidia.com"

Origins == {OriginX, OriginRos, OriginOther, OriginIsaac}

\* tokens in the order Python compares the strings they stand for
TokenOrder ==
  << "#", ".html", ".md", "/", "4.5.0", "5.0.0", "?", "_", "a", "b", "c", "en",
     OriginIsaac, OriginRos, OriginOther, OriginX, "humble", "index", "intro",
     "javascript:void(0)", "q", "top", "z", "~" >>

TokenRank(t) == CHOOSE i \in 1..Len(TokenOrder) : TokenOrder[i] = t

\* s < t for Python strings
RECURSIVE LexLess(_, _)
LexLess(s, t) ==
  IF s = <<>> THEN t # <<>>
  ELSE IF t = <<>> THEN FALSE
  ELSE IF Head(s) = Head(t) THEN LexLess(Tail(s), Tail(t))
  ELSE TokenRank(Head(s)) < TokenRank(Head(t))

\* sorted(list(S))
RECURSIVE SortedList(_)
SortedList(S) ==
  IF S = {} THEN <<>>
  ELSE LET m == CHOOSE x \in S : \A y \in S \ {x} : LexLess(x, y)
       IN  <<m>> \o SortedList(S \ {m})

\* str.startswith
StartsWith(s, p) == Len(p) <= Len(s) /\ SubSeq(s, 1, Len(p)) = p

\* variant: the fragment is not stripped
BeforeHash_Keep(s) == s

\* s.split('#')[0]
RECURSIVE BeforeHash(_)
BeforeHash(s) ==
  IF s = <<>> THEN <<>>
  ELSE IF Head(s) = "#" THEN <<>>
  ELSE <<Head(s)>> \o BeforeHash(Tail(s))

\* index of the last "/" of s, 0 when there is none
RECURSIVE LastSlash(_)
LastSlash(s) ==
  IF s = <<>> THEN 0
  ELSE IF s[Len(s)] = "/" THEN Len(s)
  ELSE LastSlash(SubSeq(s, 1, Len(s) - 1))

\* urllib.parse.urljoin(base, href) for the reference shapes that occur:
\* empty, absolute URL, absolute path, fragment only, relative path
urljoin(base, href) ==
  IF href = <<>> THEN base
  ELSE IF Head(href) \in Origins THEN href
  ELSE IF Head(href) = "/" THEN <<Head(base)>> \o href
  ELSE IF Head(href) = "#" THEN BeforeHash(base) \o href
  ELSE SubSeq(base, 1, LastSlash(base)) \o href

\* urlparse(url).path
RECURSIVE UpToMark(_)
UpToMark(s) ==
  IF s = <<>> THEN <<>>
  ELSE IF Head(s) \in {"#", "?"} THEN <<>>
  ELSE <<Head(s)>> \o UpToMark(Tail(s))

urlpath(url) ==
  IF url # <<>> /\ Head(url) \in Origins THEN UpToMark(Tail(url)) ELSE UpToMark(url)

\* s.replace(old, "", 1)
RECURSIVE RemoveFirst(_, _)
RemoveFirst(s, old) ==
  IF old = <<>> THEN s
  ELSE IF Len(s) < Len(old) THEN s
  ELSE IF StartsWith(s, old) THEN SubSeq(s, Len(old) + 1, Len(s))
  ELSE <<Head(s)>> \o RemoveFirst(Tail(s), old)

\* s.replace('/', '_').replace('.html', '')
RECURSIVE SlashToUnderscore(_)
SlashToUnderscore(s) ==
  IF s = <<>> THEN <<>>
  ELSE (IF Head(s) = "/" THEN <<"_">>
        ELSE IF Head(s) = ".html" THEN <<>>
        ELSE <<Head(s)>>) \o SlashToUnderscore(Tail(s))

\* s.strip('_')
RECURSIVE LStrip(_)
LStrip(s) == IF s # <<>> /\ Head(s) = "_" THEN LStrip(Tail(s)) ELSE s

RECURSIVE RStrip(_)
RStrip(s) ==
  IF s # <<>> /\ s[Len(s)] = "_" THEN RStrip(SubSeq(s, 1, Len(s) - 1)) ELSE s

Strip(s) == RStrip(LStrip(s))

\* tokens made only of characters of [a-zA-Z0-9_-]
SafeTokens == {"_", "a", "b", "c", "en", "humble", "index", "intro", "top", "z"}

\* re.sub(r'[^a-zA-Z0-9_-]', '', s)
RECURSIVE KeepSafe(_)
KeepSafe(s) ==
  IF s = <<>> THEN <<>>
  ELSE (IF Head(s) \in SafeTokens THEN <<Head(s)>> ELSE <<>>) \o KeepSafe(Tail(s))

Min(a, b) == IF a < b THEN a ELSE b

(***************************************************************************)
(* Locator Plan (modules/config.py)                                        *)
(***************************************************************************)
NavSelectors == {"div.wy-menu-vertical", "nav.md-nav", "nav["}

\* selectors the markup-query mechanism rejects with a syntax error
InvalidSelectors == {"nav["}

ContentSelectors == {"div[role='main']", ".md-content"}

NoiseSelectors == {"div.admonition-warning", "a.headerlink"}

FetchStrategies == {"static", "dynamic"}

\* Config.__post_init__
output_dir_of(project_name) == <<"scraped_docs_", project_name>>

\* Config(...): the dataclass constructor followed by __post_init__
Config(project_name, start_url, base_url, fetch_strategy, nav_selector, content_selector, elements_to_remove) ==
  [ project_name |-> project_name,
    start_url |-> start_url,
    base_url |-> base_url,
    fetch_strategy |-> fetch_strategy,
    nav_selector |-> nav_selector,
    content_selector |-> content_selector,
    elements_to_remove |-> elements_to_remove,
    output_dir |-> output_dir_of(project_name) ]

\* config = None
NoConfig ==
  [ project_name |-> "", start_url |-> <<>>, base_url |-> <<>>,
    fetch_strategy |-> "", nav_selector |-> "", content_selector |-> "",
    elements_to_remove |-> <<>>, output_dir |-> <<>> ]

\* manual_configs.py
ROS_HUMBLE_CONFIG ==
  Config("ros_humble_manual",
         <<OriginRos, "/", "en", "/", "humble", "/", "index", ".html">>,
         <<OriginRos, "/", "en", "/", "humble", "/">>,
         "static",
         "div.wy-menu-vertical",
         "div[role='main']",
         <<"div.admonition-warning", "a.headerlink">>)

ALL_MANUAL_CONFIGS == {ROS_HUMBLE_CONFIG}

(***************************************************************************)
(* Rendered markup                                                         *)
(***************************************************************************)
\* a navigation region: whether the selector matches, and the href of every
\* <a href> inside the first match, in document order
NoRegion == [found |-> FALSE, links |-> <<>>]

Region(links) == [found |-> TRUE, links |-> links]

\* the rendered entry pages that are tried
HtmlSamples ==
  { [ id |-> "mkdocs", length |-> LongPage,
      nav |-> [s \in NavSelectors |->
                 IF s = "nav.md-nav"
                 THEN Region(<< <<"/", "a", ".html", "#", "intro">>,
                                <<"/", "b", ".html">>,
                                <<"/", "a", ".html">>,
                                <<"c", ".html">> >>)
                 ELSE NoRegion] ],
    [ id |-> "sphinx", length |-> ShortPage,
      nav |-> [s \in NavSelectors |->
                 IF s = "div.wy-menu-vertical"
                 THEN Region(<< <<"c", ".html">>,
                                <<"#", "top">>,
                                <<"/", "a", ".html">>,
                                <<"index", ".html">>,
                                <<>> >>)
                 ELSE NoRegion] ],
    [ id |-> "offsite", length |-> ShortPage,
      nav |-> [s \in NavSelectors |->
                 IF s = "nav.md-nav"
                 THEN Region(<< <<"#", "top">>, <<OriginOther, "/", "z">> >>)
                 ELSE IF s = "div.wy-menu-vertical"
                 THEN Region(<< <<OriginX, "/", "a", ".html">>,
                                <<OriginRos, "/", "en", "/", "humble", "/", "z">> >>)
                 ELSE NoRegion] ],
    [ id |-> "bare", length |-> LongPage,
      nav |-> [s \in NavSelectors |-> NoRegion] ] }

\* rendered_html = None
NoHtml == [id |-> "", length |-> 0, nav |-> [s \in NavSelectors |-> NoRegion]]

\* variant: the whole markup is attached
Snippet_Whole(html) == [id |-> html.id, length |-> html.length]

\* rendered_html[:2000]
Snippet(html) == [id |-> html.id, length |-> Min(html.length, SnippetLimit)]

NoError == [selector |-> "", html_snippet |-> [id |-> "", length |-> 0]]

(***************************************************************************)
(* Link discovery (modules/scraper.py)                                     *)
(***************************************************************************)
\* the loop body of get_all_doc_urls_from_html: the set of page URLs that
\* the links of the navigation region add
RECURSIVE CollectUrls(_, _)
CollectUrls(base_url, links) ==
  IF links = <<>> THEN {}
  ELSE LET href == Head(links)
           rest == CollectUrls(base_url, Tail(links))
           page_url == BeforeHash(urljoin(base_url, href))
       IN  IF href # <<>> /\ Head(href) = "#" THEN rest
           ELSE IF StartsWith(page_url, base_url) THEN {page_url} \cup rest
           ELSE rest

\* variant: the links of every navigation-like region are collected
get_all_doc_urls_from_html_AnyRegion(rendered_html, cfg) ==
  IF cfg.nav_selector \in InvalidSelectors
  THEN [kind |-> "syntax", urls |-> <<>>, error |-> NoError]
  ELSE IF ~rendered_html.nav[cfg.nav_selector].found
  THEN [kind |-> "mismatch", urls |-> <<>>,
        error |-> [selector |-> cfg.nav_selector,
                   html_snippet |-> Snippet(rendered_html)]]
  ELSE [kind |-> "urls",
        urls |-> SortedList(UNION {CollectUrls(cfg.base_url, rendered_html.nav[s].links) :
                                     s \in NavSelectors}),
        error |-> NoError]

\* get_all_doc_urls_from_html: "syntax" when soup.select_one rejects the
\* selector, "mismatch" for SelectorNotFoundError, else the sorted list
get_all_doc_urls_from_html(rendered_html, cfg) ==
  IF cfg.nav_selector \in InvalidSelectors
  THEN [kind |-> "syntax", urls |-> <<>>, error |-> NoError]
  ELSE IF ~rendered_html.nav[cfg.nav_selector].found
  THEN [kind |-> "mismatch", urls |-> <<>>,
        error |-> [selector |-> cfg.nav_selector,
                   html_snippet |-> Snippet(rendered_html)]]
  ELSE [kind |-> "urls",
        urls |-> SortedList(CollectUrls(cfg.base_url,
                                        rendered_html.nav[cfg.nav_selector].links)),
        error |-> NoError]

\* variant: an empty derived name gets no default
generate_safe_filename_NoDefault(url, cfg) ==
  LET path == RemoveFirst(urlpath(url), urlpath(cfg.base_url))
      safe_name == KeepSafe(Strip(SlashToUnderscore(path)))
  IN  safe_name \o <<".md">>

\* generate_safe_filename
generate_safe_filename(url, cfg) ==
  LET path == RemoveFirst(urlpath(url), urlpath(cfg.base_url))
      safe_name == KeepSafe(Strip(SlashToUnderscore(path)))
  IN  (IF safe_name = <<>> THEN <<"index">> ELSE safe_name) \o <<".md">>

(***************************************************************************)
(* Content extraction (modules/scraper.py)                                 *)
(***************************************************************************)
\* a fetched page: for each content selector whether it matches, and the
\* child elements of the first match in document order, each with the class
\* selectors that match it
NoContent == [found |-> FALSE, elems |-> <<>>]

Content(elems) == [found |-> TRUE, elems |-> elems]

Elem(id, noise) == [id |-> id, noise |-> noise]

PageSamples ==
  { [ id |-> "article",
      content |-> [s \in ContentSelectors |->
                     Content(<<Elem("h1", {"a.headerlink"}), Elem("p", {})>>)] ],
    [ id |-> "notice",
      content |-> [s \in ContentSelectors |->
                     IF s = ".md-content"
                     THEN Content(<<Elem("warn", {"div.admonition-warning"}),
                                    Elem("link", {"a.headerlink"})>>)
                     ELSE Content(<<Elem("p", {})>>)] ],
    [ id |-> "shell",
      content |-> [s \in ContentSelectors |->
                     IF s = ".md-content" THEN NoContent ELSE Content(<<>>)] ] }

\* selectors whose match depends on the position of the element among its
\* siblings, not on the element alone
StructuralSelectors == {"p:first-child"}

\* whether main_content.select(selector) returns the i-th element of elems
Matches(selector, elems, i) ==
  IF selector \in StructuralSelectors THEN i = 1 /\ elems[i].id = "p"
  ELSE selector \in elems[i].noise

\* the inner loop of clean_and_convert: select evaluates the selector on
\* the region as it is now, then every match is decomposed
RECURSIVE Unmatched(_, _, _)
Unmatched(elems, selector, i) ==
  IF i > Len(elems) THEN <<>>
  ELSE (IF Matches(selector, elems, i) THEN <<>> ELSE <<elems[i]>>)
         \o Unmatched(elems, selector, i + 1)

\* the outer loop of clean_and_convert: the selectors in listed order, each
\* on what the earlier ones left
RECURSIVE Decompose(_, _)
Decompose(elems, selectors) ==
  IF selectors = <<>> THEN elems
  ELSE Decompose(Unmatched(elems, Head(selectors), 1), Tail(selectors))

\* clean_and_convert: the text is the sequence of the surviving elements
\* of the content region; <<>> is the empty string
clean_and_convert(page, cfg) ==
  IF ~page.content[cfg.content_selector].found THEN <<>>
  ELSE LET left == Decompose(page.content[cfg.content_selector].elems,
                             cfg.elements_to_remove)
       IN  [i \in 1..Len(left) |-> left[i].id]

(***************************************************************************)
(* Collaborators                                                           *)
(***************************************************************************)
\* the lists of noise selectors a plan may carry
RemoveLists ==
  { <<"a.headerlink">>, <<"div.admonition-warning", "a.headerlink">> }

\* the JSON object an external model may answer with
PlanData ==
  [ fetch_strategy : FetchStrategies,
    nav_selector : NavSelectors,
    content_selector : ContentSelectors,
    elements_to_remove : RemoveLists ]

PlanKeys == {"fetch_strategy", "nav_selector", "content_selector", "elements_to_remove"}

AnyData == CHOOSE d \in PlanData : TRUE

\* the key sets of the answers that are tried: complete, one key missing, empty
KeySets == {PlanKeys, {}} \cup {PlanKeys \ {k} : k \in PlanKeys}

\* what generate_content_async may produce: an exception, a text without a
\* JSON block, a block json.loads rejects, or an object with the keys `keys`
ModelResponses ==
  [kind : {"throws", "nojson", "badjson"}, keys : {{}}, data : {AnyData}]
    \cup [kind : {"object"}, keys : KeySets, data : PlanData]

\* what session.get / page.goto may produce for one URL
NoPage == [id |-> "", content |-> [s \in ContentSelectors |-> NoContent]]

\* the body served with a non-success status
ErrorPages == {p \in PageSamples : p.id = "article"}

Responses ==
  [status : {"net_error"}, page : {NoPage}]
    \cup [status : {"http_error"}, page : ErrorPages]
    \cup [status : {"ok"}, page : PageSamples]

NoResponse == [status |-> "", page |-> NoPage]

\* the command lines that are tried: --auto URL NAME, --manual NAME
AutoArgs ==
  [mode : {"auto"}, url : {<<OriginX, "/">>, <<OriginX>>}, name : {"docs"}]

ManualArgs ==
  [mode : {"manual"}, url : {<<>>}, name : {"ROS_HUMBLE_CONFIG"}]

\* ALL_MANUAL_CONFIGS.get(config_name)
ManualConfig(name) == IF name = "ROS_HUMBLE_CONFIG" THEN ROS_HUMBLE_CONFIG ELSE NoConfig

(***************************************************************************)
(* State                                                                   *)
(***************************************************************************)
VARIABLES
  args,          \* the parsed command line
  pc,            \* where main is suspended
  state,         \* state of the plan repair loop
  attempt,       \* loop variable of the repair loop
  config,        \* the Locator Plan in effect
  rendered_html, \* the entry page, rendered once
  error_info,    \* selector and snippet of the last SelectorNotFoundError
  doc_urls,      \* the Discovered URL Set of the current attempt
  task,          \* static strategy: position of each fetch task
  sem,           \* static strategy: value of the semaphore
  fetched,       \* the response each processed URL got
  dyn_i,         \* dynamic strategy: index of the next URL
  browser,       \* dynamic strategy: the browser session
  launches,      \* number of browser sessions launched for batches
  files,         \* artifact files: name -> body and source URL
  writes,        \* the artifact writes that happened
  dirs,          \* the output directories that exist
  meta,          \* the metadata files written
  attemptLog,    \* the plan of every call of execute_scrape
  repairLog,     \* the error_info of every call of refine_and_correct_plan
  gate,          \* anonymous tasks at the admission gate
  navLog,        \* dynamic strategy: the URLs page.goto was called for
  navigating,    \* dynamic strategy: the URLs whose navigation is in progress
  proposals      \* number of calls of plan_from_html

vars ==
  << args, pc, state, attempt, config, rendered_html, error_info, doc_urls,
     task, sem, fetched, dyn_i, browser, launches, files, writes, dirs, meta,
     attemptLog, repairLog, gate, navLog, navigating, proposals >>

\* the variables of the dynamic loop and of the proposal step
sideVars == <<navLog, navigating, proposals>>

batchVars == <<doc_urls, task, sem, fetched, dyn_i, browser, launches, files, writes>>

NoGate == [waiting |-> 0, inflight |-> 0, done |-> 0, last |-> ""]

Range(s) == {s[i] : i \in 1..Len(s)}

Init ==
  /\ args \in AutoArgs \cup ManualArgs
  /\ pc = "render"
  /\ state = "Starting"
  /\ attempt = 0
  /\ config = NoConfig
  /\ rendered_html = NoHtml
  /\ error_info = NoError
  /\ doc_urls = <<>>
  /\ task = <<>>
  /\ sem = 0
  /\ fetched = <<>>
  /\ dyn_i = 0
  /\ browser = "none"
  /\ launches = 0
  /\ files = <<>>
  /\ writes = {}
  /\ dirs = {}
  /\ meta = {}
  /\ attemptLog = <<>>
  /\ repairLog = <<>>
  /\ gate = NoGate
  /\ navLog = <<>>
  /\ navigating = {}
  /\ proposals = 0

(***************************************************************************)
(* main: rendering the entry page and obtaining the plan                   *)
(***************************************************************************)
\* variant: main goes on when the page could not be rendered
Render_NoReturn ==
  /\ pc = "render"
  /\ \E html \in HtmlSamples \cup {NoHtml} :
       /\ rendered_html' = html
       /\ config' = IF args.mode = "manual" THEN ManualConfig(args.name) ELSE config
       /\ IF args.mode = "manual"
          THEN pc' = "loop" /\ state' = "Executing"
          ELSE pc' = "propose" /\ state' = state
  /\ UNCHANGED <<args, attempt, error_info, batchVars, dirs, meta, attemptLog,
                 repairLog, gate, sideVars>>

\* get_html_with_playwright as called by main, with the `return` on failure
Render ==
  /\ pc = "render"
  /\ \E html \in HtmlSamples \cup {NoHtml} :
       /\ rendered_html' = html
       /\ config' = IF args.mode = "manual" THEN ManualConfig(args.name) ELSE config
       /\ IF html = NoHtml
          THEN pc' = "done" /\ state' = "Aborted"
          ELSE IF args.mode = "manual"
          THEN pc' = "loop" /\ state' = "Executing"
          ELSE pc' = "propose" /\ state' = state
  /\ UNCHANGED <<args, attempt, error_info, batchVars, dirs, meta, attemptLog,
                 repairLog, gate, sideVars>>

\* plan_from_html: None, or the Config built from the answer
plan_from_html(project_name, start_url, r) ==
  IF r.kind # "object" \/ r.keys # PlanKeys THEN NoConfig
  ELSE Config(project_name, start_url,
              IF start_url[Len(start_url)] # "/" THEN start_url \o <<"/">> ELSE start_url,
              r.data.fetch_strategy, r.data.nav_selector,
              r.data.content_selector, r.data.elements_to_remove)

Propose ==
  /\ pc = "propose"
  /\ \E r \in ModelResponses :
       /\ config' = plan_from_html(args.name, args.url, r)
       /\ IF config' = NoConfig
          THEN pc' = "done" /\ state' = "Aborted"
          ELSE pc' = "loop" /\ state' = "Executing"
  /\ proposals' = proposals + 1
  /\ UNCHANGED <<args, attempt, rendered_html, error_info, batchVars, dirs, meta,
                 attemptLog, repairLog, gate, navLog, navigating>>

\* save_project_metadata
save_project_metadata(cfg) ==
  meta' = meta \cup {[path |-> cfg.output_dir \o <<".project_meta.json">>,
                      project_name |-> cfg.project_name,
                      start_url |-> cfg.start_url]}

(***************************************************************************)
(* main: the execution and self-correction loop                            *)
(***************************************************************************)
\* execute_scrape returned: save_project_metadata, success, return
Succeed ==
  /\ save_project_metadata(config)
  /\ pc' = "done"
  /\ state' = "Succeeded"

\* variant: except Exception
Caught_Any(kind) == TRUE

\* except SelectorNotFoundError: the faults of execute_scrape the loop handles
Caught(kind) == kind = "mismatch"

\* variant: the handler does not look at the attempt counter
RepairAllowed_Unbounded == args.mode = "auto"

\* variant: the handler does not look at the mode
RepairAllowed_AnyMode == attempt < MAX_ATTEMPTS - 1

\* the condition under which the handler asks for a corrected plan
RepairAllowed == args.mode = "auto" /\ attempt < MAX_ATTEMPTS - 1

\* one iteration of the loop up to the first suspension of execute_scrape:
\* variant: the entry page is saved as an artifact before link discovery
Attempt_SaveFirst ==
  /\ pc = "loop"
  /\ attempt < MAX_ATTEMPTS
  /\ attemptLog' = Append(attemptLog, [attempt |-> attempt, plan |-> config])
  /\ dirs' = dirs \cup {config.output_dir}
  /\ LET found == get_all_doc_urls_from_html(rendered_html, config)
         entry == [url |-> config.start_url,
                   name |-> generate_safe_filename(config.start_url, config)]
     IN
       \/ /\ found.kind # "urls" /\ ~Caught(found.kind)
          /\ pc' = "done" /\ state' = "Crashed"
          /\ UNCHANGED <<error_info, batchVars, meta>>
       \/ /\ found.kind # "urls" /\ Caught(found.kind)
          /\ RepairAllowed
          /\ error_info' = found.error
          /\ pc' = "repair" /\ state' = "Repairing"
          /\ writes' = writes \cup {entry}
          /\ UNCHANGED <<doc_urls, task, sem, fetched, dyn_i, browser, launches,
                         files, meta>>
       \/ /\ found.kind # "urls" /\ Caught(found.kind)
          /\ ~RepairAllowed
          /\ pc' = "done" /\ state' = "Failed"
          /\ writes' = writes \cup {entry}
          /\ UNCHANGED <<error_info, doc_urls, task, sem, fetched, dyn_i, browser,
                         launches, files, meta>>
       \/ /\ found.kind = "urls" /\ found.urls = <<>>
          /\ Succeed
          /\ UNCHANGED <<error_info, batchVars>>
       \/ /\ found.kind = "urls" /\ found.urls # <<>>
          /\ config.fetch_strategy = "dynamic"
          /\ doc_urls' = found.urls
          /\ pc' = "dynamic" /\ state' = state
          /\ UNCHANGED <<error_info, task, sem, fetched, dyn_i, browser, launches,
                         files, writes, meta>>
       \/ /\ found.kind = "urls" /\ found.urls # <<>>
          /\ config.fetch_strategy # "dynamic"
          /\ doc_urls' = found.urls
          /\ sem' = CONCURRENT_REQUESTS
          /\ task' = [u \in Range(found.urls) |-> "waiting"]
          /\ fetched' = [u \in Range(found.urls) |-> NoResponse]
          /\ pc' = "static" /\ state' = state
          /\ UNCHANGED <<error_info, dyn_i, browser, launches, files, writes, meta>>
  /\ UNCHANGED <<args, attempt, config, rendered_html, repairLog, gate, sideVars>>

\* execute_scrape as called by main, up to the start of the batch: the
\* output directory, link discovery, the choice of the strategy, and
\* the handler of SelectorNotFoundError
Attempt ==
  /\ pc = "loop"
  /\ attempt < MAX_ATTEMPTS
  /\ attemptLog' = Append(attemptLog, [attempt |-> attempt, plan |-> config])
  /\ dirs' = dirs \cup {config.output_dir}
  /\ LET found == get_all_doc_urls_from_html(rendered_html, config) IN
       \/ /\ found.kind # "urls" /\ ~Caught(found.kind)
          /\ pc' = "done" /\ state' = "Crashed"
          /\ UNCHANGED <<error_info, batchVars, meta>>
       \/ /\ found.kind # "urls" /\ Caught(found.kind)
          /\ RepairAllowed
          /\ error_info' = found.error
          /\ pc' = "repair" /\ state' = "Repairing"
          /\ UNCHANGED <<batchVars, meta>>
       \/ /\ found.kind # "urls" /\ Caught(found.kind)
          /\ ~RepairAllowed
          /\ pc' = "done" /\ state' = "Failed"
          /\ UNCHANGED <<error_info, batchVars, meta>>
       \/ /\ found.kind = "urls" /\ found.urls = <<>>
          /\ Succeed
          /\ UNCHANGED <<error_info, batchVars>>
       \/ /\ found.kind = "urls" /\ found.urls # <<>>
          /\ config.fetch_strategy = "dynamic"
          /\ doc_urls' = found.urls
          /\ pc' = "dynamic" /\ state' = state
          /\ UNCHANGED <<error_info, task, sem, fetched, dyn_i, browser, launches,
                         files, writes, meta>>
       \/ /\ found.kind = "urls" /\ found.urls # <<>>
          /\ config.fetch_strategy # "dynamic"
          /\ doc_urls' = found.urls
          /\ sem' = CONCURRENT_REQUESTS
          /\ task' = [u \in Range(found.urls) |-> "waiting"]
          /\ fetched' = [u \in Range(found.urls) |-> NoResponse]
          /\ pc' = "static" /\ state' = state
          /\ UNCHANGED <<error_info, dyn_i, browser, launches, files, writes, meta>>
  /\ UNCHANGED <<args, attempt, config, rendered_html, repairLog, gate, sideVars>>

\* variant: the answer's fetch strategy is applied too
Corrected_WithStrategy(failed_config, r) ==
  IF "nav_selector" \notin r.keys THEN failed_config
  ELSE LET c1 == [failed_config EXCEPT !.nav_selector = r.data.nav_selector] IN
       IF "content_selector" \notin r.keys THEN c1
       ELSE LET c2 == [c1 EXCEPT !.content_selector = r.data.content_selector] IN
            IF "elements_to_remove" \notin r.keys THEN c2
            ELSE LET c3 == [c2 EXCEPT !.elements_to_remove = r.data.elements_to_remove] IN
                 IF "fetch_strategy" \notin r.keys THEN c3
                 ELSE [c3 EXCEPT !.fetch_strategy = r.data.fetch_strategy]

\* variant: the navigation locator of the answer is not applied
Corrected_KeepNav(failed_config, r) ==
  IF "nav_selector" \notin r.keys THEN failed_config
  ELSE IF "content_selector" \notin r.keys THEN failed_config
  ELSE LET c2 == [failed_config EXCEPT !.content_selector = r.data.content_selector] IN
       IF "elements_to_remove" \notin r.keys THEN c2
       ELSE [c2 EXCEPT !.elements_to_remove = r.data.elements_to_remove]

\* the assignments of refine_and_correct_plan, in order, up to the first
\* key the answer lacks
Corrected(failed_config, r) ==
  IF "nav_selector" \notin r.keys THEN failed_config
  ELSE LET c1 == [failed_config EXCEPT !.nav_selector = r.data.nav_selector] IN
       IF "content_selector" \notin r.keys THEN c1
       ELSE LET c2 == [c1 EXCEPT !.content_selector = r.data.content_selector] IN
            IF "elements_to_remove" \notin r.keys THEN c2
            ELSE [c2 EXCEPT !.elements_to_remove = r.data.elements_to_remove]

\* variant: any JSON object counts as a corrected plan
Refined_AnyObject(r) == r.kind = "object"

\* whether refine_and_correct_plan returns the plan rather than None
Refined(r) ==
  /\ r.kind = "object"
  /\ {"nav_selector", "content_selector", "elements_to_remove"} \subseteq r.keys

\* refine_and_correct_plan: the plan object after the call
refine_and_correct_plan(failed_config, r) ==
  IF r.kind # "object" THEN failed_config ELSE Corrected(failed_config, r)

\* the repair request of main and what follows it
Repair ==
  /\ pc = "repair"
  /\ \E r \in ModelResponses :
       /\ repairLog' = Append(repairLog, [attempt |-> attempt, error |-> error_info,
                                          plan |-> config, answer |-> r])
       /\ config' = refine_and_correct_plan(config, r)
       /\ IF Refined(r)
          THEN attempt' = attempt + 1 /\ pc' = "loop" /\ state' = "Executing"
          ELSE attempt' = attempt /\ pc' = "done" /\ state' = "Failed"
  /\ UNCHANGED <<args, rendered_html, error_info, batchVars, dirs, meta,
                 attemptLog, gate, sideVars>>

(***************************************************************************)
(* Fetch strategies (modules/scraper.py)                                   *)
(***************************************************************************)
\* the body of fetch_and_save_static / fetch_and_save_dynamic after the
\* markup arrived: extract, skip when empty, else write the artifact
\* variant: response.raise_for_status() is not called
StaticRaises_NoStatusCheck(r) == r.status = "net_error"

\* fetch_and_save_static: session.get or response.raise_for_status raises
StaticRaises(r) == r.status # "ok"

\* fetch_and_save_dynamic: page.goto raises
DynamicRaises(r) == r.status = "net_error"

\* variant: the semaphore never blocks
CanEnter_Always(value) == TRUE

\* asyncio.Semaphore: a task enters `async with semaphore` only while the
\* value is positive
CanEnter(value) == value > 0

\* variant: an empty extraction is written too
Save_WriteEmpty(url, r, raised) ==
  LET markdown_content == clean_and_convert(r.page, config)
      filename == generate_safe_filename(url, config)
  IN  IF raised
      THEN UNCHANGED <<files, writes>>
      ELSE /\ files' = ([n \in {filename} |-> [body |-> markdown_content, url |-> url]]
                          @@ files)
           /\ writes' = writes \cup {[url |-> url, name |-> filename]}

Save(url, r, raised) ==
  LET markdown_content == clean_and_convert(r.page, config)
      filename == generate_safe_filename(url, config)
  IN  IF raised \/ markdown_content = <<>>
      THEN UNCHANGED <<files, writes>>
      ELSE /\ files' = ([n \in {filename} |-> [body |-> markdown_content, url |-> url]]
                          @@ files)
           /\ writes' = writes \cup {[url |-> url, name |-> filename]}

\* the first task, in creation order, that waits at `async with semaphore`
FirstWaiting ==
  CHOOSE i \in 1..Len(doc_urls) :
    /\ task[doc_urls[i]] = "waiting"
    /\ \A j \in 1..(i - 1) : task[doc_urls[j]] # "waiting"

\* fetch_and_save_static: entering `async with semaphore`
StaticAcquire ==
  /\ pc = "static"
  /\ \E u \in DOMAIN task : task[u] = "waiting"
  /\ CanEnter(sem)
  /\ sem' = sem - 1
  /\ task' = [task EXCEPT ![doc_urls[FirstWaiting]] = "inflight"]
  /\ UNCHANGED <<args, pc, state, attempt, config, rendered_html, error_info,
                 doc_urls, fetched, dyn_i, browser, launches, files, writes,
                 dirs, meta, attemptLog, repairLog, gate, sideVars>>

\* fetch_and_save_static: the response arrives, the page is processed and
\* the semaphore is released
StaticFinish ==
  /\ pc = "static"
  /\ \E u \in DOMAIN task, r \in Responses :
       /\ task[u] = "inflight"
       /\ fetched' = [fetched EXCEPT ![u] = r]
       /\ Save(u, r, StaticRaises(r))
       /\ task' = [task EXCEPT ![u] = "done"]
  /\ sem' = sem + 1
  /\ UNCHANGED <<args, pc, state, attempt, config, rendered_html, error_info,
                 doc_urls, dyn_i, browser, launches, dirs, meta, attemptLog,
                 repairLog, gate, sideVars>>

\* execute_scrape: asyncio.gather returns, then main records the success
StaticDone ==
  /\ pc = "static"
  /\ \A u \in DOMAIN task : task[u] = "done"
  /\ Succeed
  /\ UNCHANGED <<args, attempt, config, rendered_html, error_info, batchVars,
                 dirs, attemptLog, repairLog, gate, sideVars>>

\* variant: leaving `async with async_playwright()` does not stop the browser
PlaywrightExit_Leak(b) == b

\* leaving `async with async_playwright()`: the driver is stopped, and with
\* it a browser that is still open
PlaywrightExit(b) == IF b = "open" THEN "closed" ELSE b

\* execute_scrape: p.chromium.launch() and browser.new_page(); an error in
\* either leaves the `async with`, execute_scrape and main
DynamicLaunch ==
  /\ pc = "dynamic"
  /\ browser # "open"
  /\ \/ /\ browser' = "open"
        /\ launches' = launches + 1
        /\ dyn_i' = 1
        /\ fetched' = [u \in Range(doc_urls) |-> NoResponse]
        /\ UNCHANGED <<pc, state>>
     \/ /\ pc' = "done" /\ state' = "Crashed"
        /\ UNCHANGED <<browser, launches, dyn_i, fetched>>
     \/ /\ launches' = launches + 1
        /\ browser' = PlaywrightExit("open")
        /\ pc' = "done" /\ state' = "Crashed"
        /\ UNCHANGED <<dyn_i, fetched>>
  /\ UNCHANGED <<args, attempt, config, rendered_html, error_info, doc_urls,
                 task, sem, files, writes, dirs, meta, attemptLog, repairLog, gate,
                 sideVars>>

\* variant: the loop does not await fetch_and_save_dynamic
SessionIdle_NoAwait == TRUE

\* `await fetch_and_save_dynamic(...)` in the loop: the next iteration starts
\* only when no navigation is in progress
SessionIdle == navigating = {}

\* fetch_and_save_dynamic: page.goto is called for the next URL of the loop
DynamicGoto ==
  /\ pc = "dynamic"
  /\ browser = "open"
  /\ Len(navLog) < Len(doc_urls)
  /\ SessionIdle
  /\ navLog' = Append(navLog, doc_urls[Len(navLog) + 1])
  /\ navigating' = navigating \cup {doc_urls[Len(navLog) + 1]}
  /\ UNCHANGED <<args, pc, state, attempt, config, rendered_html, error_info,
                 doc_urls, task, sem, fetched, dyn_i, browser, launches, files,
                 writes, dirs, meta, attemptLog, repairLog, gate, proposals>>

\* variant: clean_and_convert consumes the plan's list of noise locators
DynamicFetch_ConsumesNoise ==
  /\ pc = "dynamic"
  /\ browser = "open"
  /\ dyn_i <= Len(doc_urls)
  /\ doc_urls[dyn_i] \in navigating
  /\ \E r \in Responses :
       /\ fetched' = [fetched EXCEPT ![doc_urls[dyn_i]] = r]
       /\ Save(doc_urls[dyn_i], r, DynamicRaises(r))
  /\ config' = [config EXCEPT !.elements_to_remove = <<>>]
  /\ navigating' = navigating \ {doc_urls[dyn_i]}
  /\ dyn_i' = dyn_i + 1
  /\ UNCHANGED <<args, pc, state, attempt, rendered_html, error_info,
                 doc_urls, task, sem, browser, launches, dirs, meta, attemptLog,
                 repairLog, gate, navLog, proposals>>

\* fetch_and_save_dynamic: the navigation of the current URL ends, the page
\* is processed, and the loop moves to the next URL
DynamicFetch ==
  /\ pc = "dynamic"
  /\ browser = "open"
  /\ dyn_i <= Len(doc_urls)
  /\ doc_urls[dyn_i] \in navigating
  /\ \E r \in Responses :
       /\ fetched' = [fetched EXCEPT ![doc_urls[dyn_i]] = r]
       /\ Save(doc_urls[dyn_i], r, DynamicRaises(r))
  /\ navigating' = navigating \ {doc_urls[dyn_i]}
  /\ dyn_i' = dyn_i + 1
  /\ UNCHANGED <<args, pc, state, attempt, config, rendered_html, error_info,
                 doc_urls, task, sem, browser, launches, dirs, meta, attemptLog,
                 repairLog, gate, navLog, proposals>>

\* variant: the browser is closed inside the loop
DynamicDone_Early ==
  /\ pc = "dynamic"
  /\ browser = "open"
  /\ dyn_i > 1
  /\ navigating = {}
  /\ browser' = "closed"
  /\ Succeed
  /\ UNCHANGED <<args, attempt, config, rendered_html, error_info, doc_urls,
                 task, sem, fetched, dyn_i, launches, files, writes, dirs,
                 attemptLog, repairLog, gate, sideVars>>

\* execute_scrape: browser.close() after the loop, then main records the
\* success
DynamicDone ==
  /\ pc = "dynamic"
  /\ browser = "open"
  /\ dyn_i > Len(doc_urls)
  /\ browser' = "closed"
  /\ Succeed
  /\ UNCHANGED <<args, attempt, config, rendered_html, error_info, doc_urls,
                 task, sem, fetched, dyn_i, launches, files, writes, dirs,
                 attemptLog, repairLog, gate, sideVars>>

Next ==
  \/ Render
  \/ Propose
  \/ Attempt
  \/ Repair
  \/ StaticAcquire
  \/ StaticFinish
  \/ StaticDone
  \/ DynamicLaunch
  \/ DynamicGoto
  \/ DynamicFetch
  \/ DynamicDone

Spec == Init /\ [][Next]_vars

(***************************************************************************)
(* The admission gate of the static strategy, seen through counters: the   *)
(* tasks of one batch are not told apart, so that batches larger than the  *)
(* concurrency cap can be explored.                                        *)
(***************************************************************************)
\* execute_scrape, static branch: the semaphore and n tasks were created
InitGate ==
  /\ args \in AutoArgs
  /\ pc = "gate"
  /\ state = "Executing"
  /\ attempt = 0
  /\ config = NoConfig
  /\ rendered_html = NoHtml
  /\ error_info = NoError
  /\ doc_urls = <<>>
  /\ task = <<>>
  /\ sem = CONCURRENT_REQUESTS
  /\ fetched = <<>>
  /\ dyn_i = 0
  /\ browser = "none"
  /\ launches = 0
  /\ files = <<>>
  /\ writes = {}
  /\ dirs = {}
  /\ meta = {}
  /\ attemptLog = <<>>
  /\ repairLog = <<>>
  /\ \E n \in 1..(CONCURRENT_REQUESTS + MaxExtraTasks) :
       gate = [waiting |-> n, inflight |-> 0, done |-> 0, last |-> ""]
  /\ navLog = <<>>
  /\ navigating = {}
  /\ proposals = 0

\* fetch_and_save_static: a task enters `async with semaphore`
GateAcquire ==
  /\ pc = "gate"
  /\ gate.waiting > 0
  /\ CanEnter(sem)
  /\ sem' = sem - 1
  /\ gate' = [gate EXCEPT !.waiting = @ - 1, !.inflight = @ + 1]
  /\ UNCHANGED <<args, pc, state, attempt, config, rendered_html, error_info,
                 doc_urls, task, fetched, dyn_i, browser, launches, files,
                 writes, dirs, meta, attemptLog, repairLog, sideVars>>

\* the ways the body of `async with semaphore` is left: the artifact was
\* written, the extraction was empty (return), raise_for_status raised,
\* session.get or any later call raised
ExitPaths == {"written", "empty", "status", "exception"}

\* variant: the slot is not given back when the body raised
GateRelease_LeakOnError ==
  /\ pc = "gate"
  /\ gate.inflight > 0
  /\ \E path \in ExitPaths :
       /\ sem' = IF path \in {"status", "exception"} THEN sem ELSE sem + 1
       /\ gate' = [gate EXCEPT !.inflight = @ - 1, !.done = @ + 1, !.last = path]
  /\ UNCHANGED <<args, pc, state, attempt, config, rendered_html, error_info,
                 doc_urls, task, fetched, dyn_i, browser, launches, files,
                 writes, dirs, meta, attemptLog, repairLog, sideVars>>

\* fetch_and_save_static: a task leaves `async with semaphore`, on any path
GateRelease ==
  /\ pc = "gate"
  /\ gate.inflight > 0
  /\ \E path \in ExitPaths :
       /\ sem' = sem + 1
       /\ gate' = [gate EXCEPT !.inflight = @ - 1, !.done = @ + 1, !.last = path]
  /\ UNCHANGED <<args, pc, state, attempt, config, rendered_html, error_info,
                 doc_urls, task, fetched, dyn_i, browser, launches, files,
                 writes, dirs, meta, attemptLog, repairLog, sideVars>>

\* execute_scrape: asyncio.gather returns when every task has ended
GateDone ==
  /\ pc = "gate"
  /\ gate.waiting = 0 /\ gate.inflight = 0
  /\ pc' = "returned"
  /\ UNCHANGED <<args, state, attempt, config, rendered_html, error_info,
                 doc_urls, task, sem, fetched, dyn_i, browser, launches, files,
                 writes, dirs, meta, attemptLog, repairLog, gate, sideVars>>

NextGate == GateAcquire \/ GateRelease \/ GateDone

SpecGate == InitGate /\ [][NextGate]_vars

\* the event loop runs every task that is ready, and every fetch returns or
\* fails
FairSpecGate ==
  SpecGate /\ WF_vars(GateAcquire) /\ WF_vars(GateRelease) /\ WF_vars(GateDone)

(***************************************************************************)
(* Link discovery alone: get_all_doc_urls_from_html applied to navigation  *)
(* regions with every list of up to MaxLinks links.                        *)
(***************************************************************************)
\* the href values that are tried
Hrefs ==
  { <<"/", "a", ".html", "#", "intro">>,
    <<"/", "b", ".html">>,
    <<"/", "a", ".html">>,
    <<"#", "top">>,
    <<"c", ".html">>,
    <<>>,
    <<OriginOther, "/", "z">>,
    <<OriginRos, "/", "en", "/", "humble", "/", "z", "#", "top">>,
    <<"a", "/", "b", ".html">>,
    <<"c", "~", ".html", "?", "q">> }

LinkLists == UNION {[1..n -> Hrefs] : n \in 0..MaxLinks}

\* entry pages whose nav.md-nav region holds the links `links`
ProbePage(links, length) ==
  [ id |-> "probe", length |-> length,
    nav |-> [s \in NavSelectors |-> IF s = "nav.md-nav" THEN Region(links) ELSE NoRegion] ]

DiscoverPages ==
  {ProbePage(links, length) : links \in LinkLists, length \in {ShortPage, LongPage}}
    \cup HtmlSamples

\* plans over the two base URLs and every navigation locator
DiscoverPlans ==
  { [c EXCEPT !.nav_selector = n] :
      c \in {ROS_HUMBLE_CONFIG,
              Config("docs", <<OriginX, "/">>, <<OriginX, "/">>, "static",
                     "nav.md-nav", ".md-content", <<"a.headerlink">>)},
      n \in NavSelectors }

\* execute_scrape is about to call get_all_doc_urls_from_html
InitDiscover ==
  /\ args \in AutoArgs
  /\ pc = "discover"
  /\ state = "Executing"
  /\ attempt = 0
  /\ config \in DiscoverPlans
  /\ rendered_html \in DiscoverPages
  /\ error_info = NoError
  /\ doc_urls = <<>>
  /\ task = <<>>
  /\ sem = 0
  /\ fetched = <<>>
  /\ dyn_i = 0
  /\ browser = "none"
  /\ launches = 0
  /\ files = <<>>
  /\ writes = {}
  /\ dirs = {}
  /\ meta = {}
  /\ attemptLog = <<>>
  /\ repairLog = <<>>
  /\ gate = NoGate
  /\ navLog = <<>>
  /\ navigating = {}
  /\ proposals = 0

\* get_all_doc_urls_from_html returns or raises
Discover ==
  /\ pc = "discover"
  /\ LET found == get_all_doc_urls_from_html(rendered_html, config) IN
       /\ pc' = found.kind
       /\ doc_urls' = found.urls
       /\ error_info' = found.error
  /\ UNCHANGED <<args, state, attempt, config, rendered_html, task, sem, fetched,
                 dyn_i, browser, launches, files, writes, dirs, meta, attemptLog,
                 repairLog, gate, sideVars>>

\* generate_safe_filename applied to every discovered URL
Name ==
  /\ pc = "urls"
  /\ writes' = {[url |-> doc_urls[i], name |-> generate_safe_filename(doc_urls[i], config)] :
                  i \in 1..Len(doc_urls)}
  /\ pc' = "named"
  /\ UNCHANGED <<args, state, attempt, config, rendered_html, error_info, doc_urls,
                 task, sem, fetched, dyn_i, browser, launches, files, dirs, meta,
                 attemptLog, repairLog, gate, sideVars>>

NextDiscover == Discover \/ Name

SpecDiscover == InitDiscover /\ [][NextDiscover]_vars

(***************************************************************************)
(* Content extraction alone: clean_and_convert applied to content regions  *)
(* of up to MaxElems elements under two noise selectors, in the listed and *)
(* in the reversed order.                                                  *)
(***************************************************************************)
ElemKinds ==
  { Elem("p", {}), Elem("link", {"a.headerlink"}),
    Elem("warn", {"div.admonition-warning"}) }

ProbeContents == UNION {[1..n -> ElemKinds] : n \in 0..MaxElems}

\* pages whose .md-content region holds the elements `elems`
ExtractPages ==
  { [ id |-> "probe",
      content |-> [s \in ContentSelectors |->
                     IF s = ".md-content" THEN Content(elems) ELSE NoContent] ] :
      elems \in ProbeContents }

\* plans that remove two different noise selectors
ExtractPlans ==
  { Config("docs", <<OriginX, "/">>, <<OriginX, "/">>, "static", "nav.md-nav", c, <<a, b>>) :
      c \in ContentSelectors,
      a \in NoiseSelectors \cup StructuralSelectors,
      b \in NoiseSelectors \cup StructuralSelectors } \ 
  { Config("docs", <<OriginX, "/">>, <<OriginX, "/">>, "static", "nav.md-nav", c, <<a, a>>) :
      c \in ContentSelectors,
      a \in NoiseSelectors \cup StructuralSelectors }

ProbeUrl == <<OriginX, "/", "a", ".html">>

Reverse(s) == [i \in 1..Len(s) |-> s[Len(s) + 1 - i]]

\* the markup of one page has arrived and is about to be extracted
InitExtract ==
  /\ args \in AutoArgs
  /\ pc = "extract"
  /\ state = "Executing"
  /\ attempt = 0
  /\ config \in ExtractPlans
  /\ rendered_html = NoHtml
  /\ error_info = NoError
  /\ doc_urls = <<ProbeUrl>>
  /\ task = <<>>
  /\ sem = 0
  /\ \E page \in ExtractPages :
       fetched = [u \in {ProbeUrl} |-> [status |-> "ok", page |-> page]]
  /\ dyn_i = 0
  /\ browser = "none"
  /\ launches = 0
  /\ files = <<>>
  /\ writes = {}
  /\ dirs = {}
  /\ meta = {}
  /\ attemptLog = <<>>
  /\ repairLog = <<>>
  /\ gate = NoGate
  /\ navLog = <<>>
  /\ navigating = {}
  /\ proposals = 0

\* clean_and_convert under the plan, and under the plan with its noise
\* selectors in the reversed order
Extract ==
  /\ pc = "extract"
  /\ files' = [k \in {<<"listed">>, <<"reversed">>} |->
                 [body |-> clean_and_convert(
                             fetched[ProbeUrl].page,
                             IF k = <<"listed">> THEN config
                             ELSE [config EXCEPT !.elements_to_remove = Reverse(@)]),
                  url |-> ProbeUrl]]
  /\ pc' = "extracted"
  /\ UNCHANGED <<args, state, attempt, config, rendered_html, error_info, doc_urls,
                 task, sem, fetched, dyn_i, browser, launches, writes, dirs, meta,
                 attemptLog, repairLog, gate, sideVars>>

NextExtract == Extract

SpecExtract == InitExtract /\ [][NextExtract]_vars

(***************************************************************************)
(* The standalone scraper (1_scrape_docs.py.py): link discovery from the   *)
(* fetched entry page, applied to navigation containers with every list of *)
(* up to MaxLinks links.                                                   *)
(***************************************************************************)
START_URL == <<OriginIsaac, "/", "4.5.0", "/", "index", ".html">>

BASE_URL == <<OriginIsaac, "/", "4.5.0", "/">>

\* s.split('?')[0]
RECURSIVE BeforeQuery(_)
BeforeQuery(s) ==
  IF s = <<>> THEN <<>>
  ELSE IF Head(s) = "?" THEN <<>>
  ELSE <<Head(s)>> \o BeforeQuery(Tail(s))

\* urlparse(url).netloc, told apart by the origin of the URL
netloc(url) == IF url # <<>> /\ Head(url) \in Origins THEN Head(url) ELSE ""

\* str.endswith('.html')
EndsWithHtml(s) == s # <<>> /\ s[Len(s)] = ".html"

\* the loop body of get_all_doc_urls
RECURSIVE CrawlUrls(_, _)
CrawlUrls(base_url, links) ==
  IF links = <<>> THEN {}
  ELSE LET href == Head(links)
           rest == CrawlUrls(base_url, Tail(links))
           page_url == BeforeQuery(BeforeHash(urljoin(base_url, href)))
       IN  IF (href # <<>> /\ Head(href) = "#") \/ "javascript:void(0)" \in Range(href)
           THEN rest
           ELSE IF netloc(page_url) = netloc(base_url) /\ EndsWithHtml(page_url)
           THEN {page_url} \cup rest
           ELSE rest

\* get_all_doc_urls, given what requests.get(start_url) answered
get_all_doc_urls(entry, base_url) ==
  IF entry.status # "ok" THEN <<>>
  ELSE IF ~entry.nav.found THEN <<>>
  ELSE SortedList(CrawlUrls(base_url, entry.nav.links))

\* the href values that are tried
CrawlHrefs ==
  { <<"a", ".html", "#", "intro">>,
    <<"a", ".html", "?", "q">>,
    <<"a", ".html">>,
    <<"#", "top">>,
    <<"javascript:void(0)">>,
    <<"/", "5.0.0", "/", "index", ".html">>,
    <<OriginOther, "/", "z", ".html">>,
    <<"b", "/">>,
    <<>> }

\* what requests.get(START_URL) may answer: a failure, a page without the
\* navigation container, a page whose container holds the links
EntryResponses ==
  { [status |-> st, nav |-> NoRegion] : st \in {"net_error", "http_error", "ok"} }
    \cup { [status |-> "ok", nav |-> Region(links)] :
             links \in UNION {[1..n -> CrawlHrefs] : n \in 0..MaxLinks} }

\* main of the script is about to call get_all_doc_urls(START_URL, BASE_URL)
InitCrawl ==
  /\ args \in AutoArgs
  /\ pc = "crawl"
  /\ state = "Executing"
  /\ attempt = 0
  /\ config = NoConfig
  /\ rendered_html = NoHtml
  /\ error_info = NoError
  /\ doc_urls = <<>>
  /\ task = <<>>
  /\ sem = 0
  /\ \E entry \in EntryResponses : fetched = [u \in {START_URL} |-> entry]
  /\ dyn_i = 0
  /\ browser = "none"
  /\ launches = 0
  /\ files = <<>>
  /\ writes = {}
  /\ dirs = {}
  /\ meta = {}
  /\ attemptLog = <<>>
  /\ repairLog = <<>>
  /\ gate = NoGate
  /\ navLog = <<>>
  /\ navigating = {}
  /\ proposals = 0

\* get_all_doc_urls returns
Crawl ==
  /\ pc = "crawl"
  /\ doc_urls' = get_all_doc_urls(fetched[START_URL], BASE_URL)
  /\ pc' = "crawled"
  /\ UNCHANGED <<args, state, attempt, config, rendered_html, error_info, task, sem,
                 fetched, dyn_i, browser, launches, files, writes, dirs, meta,
                 attemptLog, repairLog, gate, sideVars>>

NextCrawl == Crawl

SpecCrawl == InitCrawl /\ [][NextCrawl]_vars

(***************************************************************************)
(* Properties                                                              *)
(***************************************************************************)
\* the plan of the latest call of execute_scrape
LastPlan == attemptLog[Len(attemptLog)].plan

\* the navigation locator of the plan matches no element of the entry page
NavMisses(plan) ==
  /\ plan.nav_selector \notin InvalidSelectors
  /\ ~rendered_html.nav[plan.nav_selector].found

\* the navigation region is found but yields no in-scope URL
ZeroCrawl(plan) ==
  /\ plan.nav_selector \notin InvalidSelectors
  /\ rendered_html.nav[plan.nav_selector].found
  /\ CollectUrls(plan.base_url, rendered_html.nav[plan.nav_selector].links) = {}

LocatorKeys == {"nav_selector", "content_selector", "elements_to_remove"}

\* the answer of the repair collaborator is a refusal
Refused(r) == r.kind # "object" \/ ~(LocatorKeys \subseteq r.keys)

\* the fields of a plan that are not locators
FrameFields(c) ==
  <<c.project_name, c.start_url, c.base_url, c.fetch_strategy, c.output_dir>>

\* the content region of the page is found and an element of it is matched
\* by none of the plan's noise locators
Survives(page, plan) ==
  /\ page.content[plan.content_selector].found
  /\ \E i \in 1..Len(page.content[plan.content_selector].elems) :
       page.content[plan.content_selector].elems[i].noise
         \cap Range(plan.elements_to_remove) = {}

\* C1: execute_scrape is called at most MAX_ATTEMPTS times in a run, the
\* attempts are numbered by one counter over the whole run, and the repair
\* collaborator is asked at most MAX_ATTEMPTS - 1 times.
C1_AttemptsBounded ==
  /\ Len(attemptLog) <= MAX_ATTEMPTS
  /\ Len(repairLog) <= MAX_ATTEMPTS - 1
  /\ \A i \in 1..Len(attemptLog) : attemptLog[i].attempt = i - 1

C1_Witness ==
  /\ pc = "done"
  /\ Len(attemptLog) = MAX_ATTEMPTS
  /\ Len(repairLog) = MAX_ATTEMPTS - 1

\* C2: in auto mode, once the first attempt raised a locator mismatch and
\* the repair collaborator returned a corrected plan, main is at the head of
\* the loop with the second attempt still allowed, and that attempt's link
\* discovery uses the navigation locator of the answer, hence not the
\* original one when the two differ.
C2_SecondAttemptUsesCorrected ==
  (args.mode = "auto" /\ Len(repairLog) = 1 /\ ~Refused(repairLog[1].answer)) =>
    LET corrected == repairLog[1].answer.data.nav_selector IN
      IF Len(attemptLog) < 2
      THEN /\ pc = "loop"
           /\ attempt = 1
           /\ attempt < MAX_ATTEMPTS
           /\ config.nav_selector = corrected
      ELSE /\ attemptLog[2].attempt = 1
           /\ attemptLog[2].plan.nav_selector = corrected
           /\ (corrected # attemptLog[1].plan.nav_selector
                 => attemptLog[2].plan.nav_selector # attemptLog[1].plan.nav_selector)

C2_Witness ==
  /\ args.mode = "auto"
  /\ Len(attemptLog) = 2
  /\ Len(repairLog) = 1
  /\ NavMisses(attemptLog[1].plan)
  /\ attemptLog[2].plan.nav_selector # attemptLog[1].plan.nav_selector

\* C3: in manual mode the loop never enters Repairing and never asks the
\* repair collaborator; a locator mismatch ends the run in Failed after
\* exactly one attempt.
C3_ManualNeverRepairs ==
  args.mode = "manual" =>
    /\ state # "Repairing"
    /\ Len(repairLog) = 0
    /\ Len(attemptLog) <= 1
    /\ (Len(attemptLog) = 1 /\ NavMisses(attemptLog[1].plan)
          => state = "Failed" /\ pc = "done")

C3_Witness ==
  /\ args.mode = "manual"
  /\ state = "Failed"
  /\ Len(attemptLog) = 1
  /\ NavMisses(attemptLog[1].plan)

\* C4: a run whose link discovery finds the navigation region but no
\* in-scope URL does not end in Succeeded.
C4_ZeroCrawlFails ==
  (pc = "done" /\ Len(attemptLog) > 0 /\ ZeroCrawl(LastPlan)) => state # "Succeeded"

\* C5: when the repair collaborator refuses (throws, no JSON block,
\* unparsable JSON, a locator field missing), the run is Failed: no further
\* attempt is made and nothing is recorded as a success.
C5_RefusalFails ==
  \A i \in 1..Len(repairLog) :
    Refused(repairLog[i].answer) =>
      /\ state = "Failed"
      /\ pc = "done"
      /\ Len(attemptLog) = i
      /\ meta = {}

C5_Witness ==
  /\ Len(repairLog) = 1
  /\ repairLog[1].answer.kind = "object"
  /\ Refused(repairLog[1].answer)
  /\ state = "Failed"

\* C6: the metadata file exists exactly when the run ended in Succeeded,
\* and never after a zero-page crawl.
C6_MetadataOnlyOnSuccess ==
  /\ meta # {} <=> state = "Succeeded"
  /\ (meta # {} /\ Len(attemptLog) > 0) => ~ZeroCrawl(LastPlan)

\* C7: the loop enters Repairing only from an attempt whose navigation
\* locator matched nothing; a repair request is only issued from Repairing;
\* no step taken while pages are fetched enters Repairing, asks for a repair
\* or starts another attempt; any other fault ends the run without a repair
\* request.
C7_OnlyMismatchRepairs ==
  [][ /\ (state' = "Repairing" /\ state # "Repairing")
           => (pc = "loop" /\ NavMisses(config))
      /\ Len(repairLog') > Len(repairLog) => state = "Repairing"
      /\ pc \in {"static", "dynamic"}
           => /\ state' # "Repairing"
              /\ repairLog' = repairLog
              /\ attemptLog' = attemptLog
      /\ state' = "Crashed" => (repairLog' = repairLog /\ pc' = "done")
      /\ state = "Crashed" => state' = "Crashed" ]_vars

C7_Witness ==
  /\ state = "Succeeded"
  /\ Len(repairLog) = 0
  /\ \E u \in DOMAIN fetched : fetched[u].status = "net_error"
  /\ \E u \in DOMAIN fetched :
       fetched[u].status = "ok" /\ ~Survives(fetched[u].page, config)

\* C8: a repair step leaves project name, start URL, base URL, fetch
\* strategy and output directory as they were and, when it succeeds, sets
\* the three locator fields to those of the answer; all attempts of a run
\* use the same fetch strategy and output directory.
C8_RepairKeepsFrame ==
  [][ /\ pc = "repair" => FrameFields(config') = FrameFields(config)
      /\ (pc = "repair" /\ pc' = "loop")
           => LET a == repairLog'[Len(repairLog')].answer.data IN
                /\ config'.nav_selector = a.nav_selector
                /\ config'.content_selector = a.content_selector
                /\ config'.elements_to_remove = a.elements_to_remove
      /\ \A i, j \in 1..Len(attemptLog') :
           FrameFields(attemptLog'[i].plan) = FrameFields(attemptLog'[j].plan) ]_vars

C8_Witness ==
  /\ Len(attemptLog) = 2
  /\ "fetch_strategy" \in repairLog[1].answer.keys
  /\ repairLog[1].answer.data.fetch_strategy # attemptLog[1].plan.fetch_strategy
  /\ attemptLog[2].plan.nav_selector # attemptLog[1].plan.nav_selector

\* C9: in the static strategy at most CONCURRENT_REQUESTS fetches are in
\* flight at any time, and a task is admitted only while fewer than
\* CONCURRENT_REQUESTS are in flight.
C9_InflightCapped ==
  [][ /\ gate'.inflight <= CONCURRENT_REQUESTS
      /\ gate'.waiting < gate.waiting => gate.inflight < CONCURRENT_REQUESTS ]_vars

C9_Witness ==
  /\ gate.inflight = CONCURRENT_REQUESTS
  /\ gate.waiting > 0

\* C10: in the static strategy an artifact is written for a URL exactly
\* when its own fetch succeeded and its extraction is non-empty, whatever
\* happened to the other URLs, and the batch ends only after every URL was
\* processed.
C10_StaticIndependent ==
  DOMAIN task # {} =>
    /\ \A u \in DOMAIN task :
         (\E w \in writes : w.url = u)
           <=> /\ task[u] = "done"
               /\ fetched[u].status = "ok"
               /\ Survives(fetched[u].page, config)
    /\ {w.url : w \in writes} \subseteq Range(doc_urls)
    /\ state = "Succeeded" => \A u \in Range(doc_urls) : task[u] = "done"

C10_Witness ==
  /\ state = "Succeeded"
  /\ Len(doc_urls) = 3
  /\ DOMAIN task # {}
  /\ fetched[doc_urls[2]].status = "http_error"
  /\ fetched[doc_urls[1]].status = "ok"
  /\ fetched[doc_urls[3]].status = "ok"
  /\ Cardinality(writes) = 2
  /\ Cardinality(DOMAIN files) = 2

\* the URL was written as an artifact
Written(u) == \E w \in writes : w.url = u

\* the markup of the URL reached clean_and_convert
Extracted(u) ==
  \/ fetched[u].status = "ok"
  \/ config.fetch_strategy = "dynamic" /\ fetched[u].status = "http_error"

\* C11: in the dynamic strategy one browser session serves the batch, the
\* URLs are navigated in discovered order, at most one navigation is in
\* progress, and a navigation begins only after every earlier one ended.
C11_DynamicSequential ==
  /\ launches <= 1
  /\ Cardinality(navigating) <= 1
  /\ navLog # <<>> => launches = 1
  /\ navLog = SubSeq(doc_urls, 1, Len(navLog))
  /\ \A k \in 1..Len(navLog) :
       /\ k < Len(navLog) => navLog[k] \notin navigating /\ fetched[navLog[k]] # NoResponse
       /\ navLog[k] \in navigating => fetched[navLog[k]] = NoResponse

C11_Witness ==
  /\ Len(doc_urls) >= 3
  /\ Len(navLog) = 3
  /\ navigating = {doc_urls[3]}
  /\ browser = "open"

\* C12: in the dynamic strategy, once the loop has started, no failure of a
\* URL ends the run or closes the session: the session is closed only after
\* the last URL, and then every discovered URL was navigated exactly once.
C12_DynamicSkipsFailures ==
  navLog # <<>> =>
    /\ state \notin {"Failed", "Crashed", "Aborted"}
    /\ browser \in {"open", "closed"}
    /\ browser = "closed" =>
         /\ navLog = doc_urls
         /\ navigating = {}
         /\ \A u \in Range(doc_urls) : fetched[u] # NoResponse
    /\ \A i, j \in 1..Len(navLog) : navLog[i] = navLog[j] => i = j

C12_Witness ==
  /\ state = "Succeeded"
  /\ browser = "closed"
  /\ Len(doc_urls) >= 3
  /\ fetched[doc_urls[1]].status = "net_error"
  /\ fetched[doc_urls[2]].status = "ok"
  /\ ~Survives(fetched[doc_urls[2]].page, config)
  /\ Written(doc_urls[3])

C14_DiscoverOrderedScoped ==
  pc = "urls" =>
    LET links == rendered_html.nav[config.nav_selector].links IN
      /\ \A i, j \in 1..Len(doc_urls) : i < j => LexLess(doc_urls[i], doc_urls[j])
      /\ \A i \in 1..Len(doc_urls) :
           /\ StartsWith(doc_urls[i], config.base_url)
           /\ "#" \notin Range(doc_urls[i])
      /\ (\A k \in 1..Len(links) : links[k] # <<>> /\ Head(links[k]) = "#")
           => doc_urls = <<>>
      /\ (/\ config.base_url = <<OriginX, "/">>
          /\ links = << <<"/", "a", ".html", "#", "intro">>, <<"/", "b", ".html">>,
                        <<"/", "a", ".html">> >>)
           => doc_urls = << <<OriginX, "/", "a", ".html">>, <<OriginX, "/", "b", ".html">> >>

C14_Witness ==
  /\ pc = "urls"
  /\ config.base_url = <<OriginX, "/">>
  /\ rendered_html.nav[config.nav_selector].links =
       << <<"/", "a", ".html", "#", "intro">>, <<"/", "b", ".html">>, <<"/", "a", ".html">> >>
  /\ Len(doc_urls) = 2

\* C15: when the navigation locator matches no element, link discovery
\* raises the mismatch fault, never a list: the fault carries the plan's
\* navigation locator and a snippet of the same markup of at most
\* SnippetLimit characters; and the fault is raised in no other case.
C15_MismatchCarriesLocator ==
  pc # "discover" =>
    /\ NavMisses(config) =>
         /\ pc = "mismatch"
         /\ doc_urls = <<>>
         /\ error_info.selector = config.nav_selector
         /\ error_info.html_snippet.id = rendered_html.id
         /\ error_info.html_snippet.length <= SnippetLimit
         /\ error_info.html_snippet.length <= rendered_html.length
         /\ (rendered_html.length <= SnippetLimit
               => error_info.html_snippet.length = rendered_html.length)
    /\ pc = "mismatch" => NavMisses(config)

C15_Witness ==
  /\ pc = "mismatch"
  /\ rendered_html.length > SnippetLimit
  /\ error_info.html_snippet.length = SnippetLimit
  /\ error_info.selector = config.nav_selector

\* C16: in both strategies a page whose content locator matches nothing, or
\* whose content is removed entirely, is skipped without a fault: no
\* artifact is written for it, the run does not fail, and the batch ends
\* only after every URL was processed.
C16_EmptyExtractionSkips ==
  /\ \A u \in DOMAIN fetched :
       (Extracted(u) /\ ~Survives(fetched[u].page, config))
         => /\ ~Written(u)
            /\ state \notin {"Failed", "Crashed", "Aborted"}
  /\ (state = "Succeeded" /\ doc_urls # <<>>)
       => \A u \in Range(doc_urls) : fetched[u] # NoResponse

C16_Witness ==
  /\ state = "Succeeded"
  /\ config.fetch_strategy = "dynamic"
  /\ Len(doc_urls) >= 3
  /\ fetched[doc_urls[1]].status = "ok"
  /\ ~fetched[doc_urls[1]].page.content[config.content_selector].found
  /\ fetched[doc_urls[2]].status = "ok"
  /\ fetched[doc_urls[2]].page.content[config.content_selector].found
  /\ ~Survives(fetched[doc_urls[2]].page, config)
  /\ Written(doc_urls[3])

\* C17: the plan changes only when it is created (before the loop) or in the
\* repair step; no step of an execution attempt changes it, and the repair
\* step runs when no fetch task is in flight, no navigation is in progress
\* and no browser is open.
C17_PlanReadOnlyInAttempt ==
  [][ /\ config' # config => pc \in {"render", "propose", "repair"}
      /\ pc \in {"loop", "static", "dynamic"} => config' = config
      /\ pc = "repair"
           => /\ state = "Repairing"
              /\ \A u \in DOMAIN task : task[u] # "inflight"
              /\ navigating = {}
              /\ browser # "open" ]_vars

C17_Witness ==
  /\ Len(attemptLog) = 2
  /\ config # attemptLog[1].plan
  /\ writes # {}
  /\ state = "Succeeded"

\* C18: within one run no two distinct URLs are written to the same
\* artifact file name.
C18_WriteOnce ==
  \A w1, w2 \in writes : w1.name = w2.name => w1.url = w2.url

\* C19: the entry page is rendered once, and the Discovered URL Set of an
\* attempt is exactly what the entry page yields under that attempt's plan:
\* the URLs fetched and written are among them, whatever an earlier attempt
\* used.
C19_FreshUrlSet ==
  [][ /\ rendered_html # NoHtml => rendered_html' = rendered_html
      /\ (pc' \in {"static", "dynamic"} \/ state' = "Succeeded")
           => LET plan == attemptLog'[Len(attemptLog')].plan
                  expected == CollectUrls(plan.base_url,
                                          rendered_html'.nav[plan.nav_selector].links)
              IN  /\ plan = config'
                  /\ Range(doc_urls') = expected
                  /\ Len(doc_urls') = Cardinality(expected)
                  /\ DOMAIN fetched' \subseteq expected
                  /\ {w.url : w \in writes'} \subseteq expected ]_vars

C19_Witness ==
  /\ Len(attemptLog) = 2
  /\ state = "Succeeded"
  /\ doc_urls # <<>>
  /\ attemptLog[1].plan.nav_selector # attemptLog[2].plan.nav_selector
  /\ writes # {}

\* C20: when the entry page cannot be rendered the run ends, in both modes,
\* with no plan proposal, no attempt, no repair request, no fetch and no
\* metadata; when the plan proposal fails in auto mode the run ends with no
\* attempt.
C20_RenderFailureAborts ==
  /\ (pc # "render" /\ rendered_html = NoHtml)
       => /\ pc = "done" /\ state = "Aborted"
          /\ proposals = 0
          /\ attemptLog = <<>> /\ repairLog = <<>>
          /\ writes = {} /\ meta = {} /\ dirs = {} /\ launches = 0
  /\ (proposals > 0 /\ config = NoConfig)
       => /\ pc = "done" /\ state = "Aborted"
          /\ attemptLog = <<>> /\ repairLog = <<>>
          /\ writes = {} /\ meta = {} /\ dirs = {} /\ launches = 0

C20_Witness ==
  /\ args.mode = "manual"
  /\ state = "Aborted"
  /\ rendered_html = NoHtml

\* C21: a run that entered the execution loop ends in Succeeded or in
\* Failed, the two terminal states of the plan repair loop.
C21_EndsSucceededOrFailed ==
  (pc = "done" /\ attemptLog # <<>>) => state \in {"Succeeded", "Failed"}

\* C25: link discovery completes before any page fetch starts: while the
\* run is in Repairing, or has Failed, no page was fetched, no browser was
\* launched and no artifact was written by it; a fetch exists only for a
\* URL of the discovered list.
C25_DiscoveryBeforeFetch ==
  /\ state \in {"Repairing", "Failed"}
       => /\ writes = {} /\ files = <<>>
          /\ \A u \in DOMAIN fetched : fetched[u] = NoResponse
          /\ \A u \in DOMAIN task : task[u] = "waiting"
          /\ launches = 0 /\ navLog = <<>>
  /\ (launches > 0 \/ navLog # <<>> \/ \E u \in DOMAIN task : task[u] # "waiting")
       => /\ doc_urls # <<>>
          /\ doc_urls = SortedList(Range(doc_urls))
          /\ Range(navLog) \subseteq Range(doc_urls)

C25_Witness ==
  /\ state = "Failed"
  /\ Len(attemptLog) = 1
  /\ NavMisses(attemptLog[1].plan)
  /\ dirs # {}
  /\ writes = {}

\* C27: after a repair request that ended in a refusal every field of the
\* plan has the value it had before the request.
C27_RefusalKeepsPlan ==
  (repairLog # <<>> /\ Refused(repairLog[Len(repairLog)].answer))
    => config = repairLog[Len(repairLog)].plan

\* the elements of the content region of the page that the selector matches
MatchedBy(selector, page, plan) ==
  {i \in 1..Len(page.content[plan.content_selector].elems) :
     Matches(selector, page.content[plan.content_selector].elems, i)}

\* C22: when the two noise locators of the plan match disjoint sets of
\* elements of the content region, removing them in the listed order and in
\* the reversed order leaves the same content.
C22_RemovalOrderIndependent ==
  (/\ pc = "extracted"
   /\ MatchedBy(config.elements_to_remove[1], fetched[ProbeUrl].page, config)
        \cap MatchedBy(config.elements_to_remove[2], fetched[ProbeUrl].page, config) = {})
    => files[<<"listed">>].body = files[<<"reversed">>].body

\* C23: every member of the list of get_all_doc_urls is an absolute URL
\* that starts with the base URL and holds no fragment and no query, and
\* the list is strictly increasing (sorted and duplicate-free).
C23_CrawlScoped ==
  pc = "crawled" =>
    /\ \A i \in 1..Len(doc_urls) :
         /\ Head(doc_urls[i]) \in Origins
         /\ StartsWith(doc_urls[i], BASE_URL)
         /\ "#" \notin Range(doc_urls[i])
         /\ "?" \notin Range(doc_urls[i])
    /\ \A i, j \in 1..Len(doc_urls) : i < j => LexLess(doc_urls[i], doc_urls[j])

\* C24: the file name of a discovered URL ends in '.md'; before that it is
\* non-empty, holds only characters of [a-zA-Z0-9_-], no path separator
\* and no '.html'; the base URL itself gets 'index.md', the path a/b.html
\* under the base gets 'a_b.md', and c~.html?q gets 'c.md'.
C24_SafeFileName ==
  pc = "named" =>
    \A w \in writes :
      LET stem == SubSeq(w.name, 1, Len(w.name) - 1) IN
        /\ w.name[Len(w.name)] = ".md"
        /\ stem # <<>>
        /\ Range(stem) \subseteq SafeTokens
        /\ "/" \notin Range(stem) /\ ".html" \notin Range(stem)
        /\ w.url = config.base_url => w.name = <<"index", ".md">>
        /\ w.url = config.base_url \o <<"a", "/", "b", ".html">>
             => w.name = <<"a", "_", "b", ".md">>
        /\ w.url = config.base_url \o <<"c", "~", ".html", "?", "q">>
             => w.name = <<"c", ".md">>

C24_Witness ==
  /\ pc = "named"
  /\ [url |-> config.base_url, name |-> <<"index", ".md">>] \in writes
  /\ [url |-> config.base_url \o <<"a", "/", "b", ".html">>,
      name |-> <<"a", "_", "b", ".md">>] \in writes
  /\ [url |-> config.base_url \o <<"c", "~", ".html", "?", "q">>,
      name |-> <<"c", ".md">>] \in writes

\* C26: in the static batch no admission slot is ever lost (the free slots
\* and the fetches in flight add up to CONCURRENT_REQUESTS), no task is
\* lost or processed twice, the batch eventually returns, and when it has
\* returned every task was processed, none is in flight and every slot is
\* free.
C26_StaticCompletes ==
  /\ [](sem + gate.inflight = CONCURRENT_REQUESTS)
  /\ [][gate'.waiting + gate'.inflight + gate'.done
          = gate.waiting + gate.inflight + gate.done]_vars
  /\ [](pc = "returned"
          => gate.waiting = 0 /\ gate.inflight = 0 /\ sem = CONCURRENT_REQUESTS)
  /\ <>(pc = "returned")

C26_Witness ==
  /\ pc = "returned"
  /\ gate.done > CONCURRENT_REQUESTS
  /\ gate.last = "exception"
  /\ sem = CONCURRENT_REQUESTS

====
